---- MODULE Spec2Model ----
(***************************************************************************)
(* Model of the chunk-ingestion helpers of rag_demo                        *)
(* (src/utils/helpers/get_population_func.py).                             *)
(*                                                                         *)
(* Text is modelled as a sequence of tokens (TLA+ strings): a path         *)
(* separator, a colon, a decimal digit and a file or directory name are    *)
(* one token each.  The sidecar file is a sequence of JSON tokens.         *)
(***************************************************************************)
EXTENDS Integers, Sequences, FiniteSets, TLC

VARIABLES
    platform,   \* "posix" or "nt": which os.path the interpreter runs on
    chunks,     \* the chunk list the caller holds (metadata is mutated in place)
    input,      \* the argument of the operation last called
    result,     \* what the operation last called returned
    file,       \* the sidecar file: NoFile, or its content as a token sequence
    ledger,     \* the chunk_id set last loaded
    calls,      \* the ingest_fn invocations of process_in_batches, in order
    batch_i,    \* the loop variable i of process_in_batches
    run,        \* the number of runs of the caller begun so far
    docs,       \* the chunk list the loader and the splitter give every run
    history,    \* what each run did, one record per run
    pc          \* position of the caller

vars == <<platform, chunks, input, result, file, ledger, calls, batch_i, run, docs, history, pc>>

----------------------------------------------------------------------------
(* Python values *)

\* None as a metadata "source": no path is spelled like this
PyNone == <<"<None>">>

\* None as a metadata "page"
PyNonePage == 0 - 1

\* metadata without a "chunk_id" key
NoId == <<>>

\* last_page_id = None
NoPageId == <<>>

Digits == <<"0", "1", "2", "3", "4", "5", "6", "7", "8", "9">>

RECURSIVE ToStr(_)
\* str(n) of a non-negative int, as the f-string formats it
ToStr(n) ==
    IF n < 10 THEN <<Digits[n + 1]>>
    ELSE ToStr(n \div 10) \o <<Digits[(n % 10) + 1]>>

\* f"{page}"
FormatPage(page) == IF page = PyNonePage THEN <<"None">> ELSE ToStr(page)

----------------------------------------------------------------------------
(* os.path *)

Sep(os) == IF os = "nt" THEN "\\" ELSE "/"

\* the separators os.path splits on: ntpath treats "/" as altsep
Seps(os) == IF os = "nt" THEN {"\\", "/"} ELSE {"/"}

\* s.split(sep): the components between separators (empty ones included)
Split(s, seps) ==
    LET RECURSIVE go(_, _, _)
        go(i, cur, acc) ==
            IF i > Len(s) THEN Append(acc, cur)
            ELSE IF s[i] \in seps THEN go(i + 1, <<>>, Append(acc, cur))
            ELSE go(i + 1, Append(cur, s[i]), acc)
    IN  go(1, <<>>, <<>>)

\* the component loop of normpath on a relative path: "" and "." are dropped,
\* ".." removes the component before it unless there is none or it is ".."
NormComps(comps) ==
    LET RECURSIVE go(_, _)
        go(i, acc) ==
            IF i > Len(comps) THEN acc
            ELSE IF comps[i] = <<>> \/ comps[i] = <<".">> THEN go(i + 1, acc)
            ELSE IF comps[i] # <<"..">> \/ acc = <<>> \/ acc[Len(acc)] = <<"..">>
                 THEN go(i + 1, Append(acc, comps[i]))
            ELSE go(i + 1, SubSeq(acc, 1, Len(acc) - 1))
    IN  go(1, <<>>)

\* sep.join(comps)
JoinPath(comps, sep) ==
    LET RECURSIVE go(_, _)
        go(i, acc) ==
            IF i > Len(comps) THEN acc
            ELSE go(i + 1, (IF i = 1 THEN acc ELSE Append(acc, sep)) \o comps[i])
    IN  go(1, <<>>)

\* len(os.path.commonprefix([a, b])) of two component lists
CommonLen(a, b) ==
    LET RECURSIVE go(_)
        go(i) == IF i <= Len(a) /\ i <= Len(b) /\ a[i] = b[i] THEN go(i + 1) ELSE i - 1
    IN  go(1)

\* os.path.normpath(source) followed by os.path.relpath(norm_source, base_data_path)
\* for a source and a base directory given relative to the working directory;
\* the result is a list of components
RelComps(source, base, os) ==
    LET path_list  == NormComps(Split(source, Seps(os)))
        start_list == NormComps(Split(base, Seps(os)))
        i == CommonLen(start_list, path_list)
        rel_list == [k \in 1..(Len(start_list) - i) |-> <<"..">>]
                    \o SubSeq(path_list, i + 1, Len(path_list))
    IN  IF rel_list = <<>> THEN <<<<".">>>> ELSE rel_list

\* s.replace("\\", "/")
ReplaceBackslash(s) == [k \in 1..Len(s) |-> IF s[k] = "\\" THEN "/" ELSE s[k]]

\* rel_source of calc_chunk_ids
RelSource(source, base, os) ==
    ReplaceBackslash(JoinPath(RelComps(source, base, os), Sep(os)))

----------------------------------------------------------------------------
(* calc_chunk_ids *)

\* base_data_path
BaseDataPath == <<"data">>

\* mutant: the page id is read from the chunk_id the metadata already holds
PageId_FromChunkId(chunk, os) ==
    IF chunk.chunk_id # NoId THEN chunk.chunk_id
    ELSE RelSource(chunk.source, BaseDataPath, os) \o <<":">> \o FormatPage(chunk.page)

\* curr_page_id = f"{rel_source}:{page}"
PageId(chunk, os) ==
    RelSource(chunk.source, BaseDataPath, os) \o <<":">> \o FormatPage(chunk.page)

\* os.path.normpath(None) raises TypeError
Faults(chunk) == chunk.source = PyNone

\* mutant: the reset on a new page is forgotten
NextChunkIdx_NoReset(curr_page_id, last_page_id, curr_chunk_idx) ==
    IF curr_page_id = last_page_id THEN curr_chunk_idx + 1 ELSE curr_chunk_idx

\* mutant: "curr_chunk_idx = 1" written for "curr_chunk_idx += 1"
NextChunkIdx_SetOne(curr_page_id, last_page_id, curr_chunk_idx) ==
    IF curr_page_id = last_page_id THEN 1 ELSE 0

\* the value of curr_chunk_idx after the if/else of one iteration
NextChunkIdx(curr_page_id, last_page_id, curr_chunk_idx) ==
    IF curr_page_id = last_page_id THEN curr_chunk_idx + 1 ELSE 0

\* chunk_id = f"{curr_page_id}:{curr_chunk_idx}"
FormatChunkId(curr_page_id, curr_chunk_idx) ==
    curr_page_id \o <<":">> \o ToStr(curr_chunk_idx)

\* mutant: the except branch returns the chunks as they were passed in, without
\* the chunk_ids assigned before the fault
calc_chunk_ids_Rollback(cs, os) ==
    LET RECURSIVE loop(_, _, _, _)
        loop(k, last_page_id, curr_chunk_idx, acc) ==
            IF k > Len(cs) THEN acc
            ELSE IF Faults(cs[k]) THEN cs
            ELSE LET curr_page_id == PageId(cs[k], os)
                     idx == NextChunkIdx(curr_page_id, last_page_id, curr_chunk_idx)
                 IN  loop(k + 1, curr_page_id, idx,
                          [acc EXCEPT ![k].chunk_id = FormatChunkId(curr_page_id, idx)])
    IN  loop(1, NoPageId, 0, cs)

\* the for loop: the chunks visited before the first fault get their chunk_id,
\* the except branch returns the list as it is at the fault
calc_chunk_ids(cs, os) ==
    LET RECURSIVE loop(_, _, _, _)
        loop(k, last_page_id, curr_chunk_idx, acc) ==
            IF k > Len(cs) THEN acc
            ELSE IF Faults(cs[k]) THEN acc
            ELSE LET curr_page_id == PageId(cs[k], os)
                     idx == NextChunkIdx(curr_page_id, last_page_id, curr_chunk_idx)
                 IN  loop(k + 1, curr_page_id, idx,
                          [acc EXCEPT ![k].chunk_id = FormatChunkId(curr_page_id, idx)])
    IN  loop(1, NoPageId, 0, cs)

----------------------------------------------------------------------------
(* Inputs of calc_chunk_ids *)

\* str(pdf_file) of two PDFs under the base directory, and one of them as
\* pathlib spells it on Windows
SrcA == <<"data", "/", "a.pdf">>
SrcB == <<"data", "/", "b.pdf">>
SrcAWin == <<"data", "\\", "a.pdf">>

Sources == {SrcA, SrcB, SrcAWin, PyNone}

MaxPage == 2

Pages == 1..MaxPage

\* page_content of a chunk: word tokens "w", whitespace tokens " "
Word == <<"w">>

\* a chunk the splitter returns: no chunk_id in its metadata yet
NewChunk(source, page, content) ==
    [source |-> source, page |-> page, content |-> content, chunk_id |-> NoId]

\* all sequences over S of length at most n
SeqsUpTo(S, n) == UNION {[1..k -> S] : k \in 0..n}

MaxIdChunks == 4

\* a chunk of each page of each source; the page of a chunk without a source is
\* never read
IdChunks ==
    {NewChunk(s, p, Word) : s \in Sources \ {PyNone}, p \in Pages}
        \cup {NewChunk(PyNone, 1, Word)}

NoFile == <<[t |-> "<absent>", v |-> <<>>]>>

----------------------------------------------------------------------------
(* calc_chunk_ids called on any chunk list *)

InitIds ==
    /\ platform \in {"posix", "nt"}
    /\ chunks \in SeqsUpTo(IdChunks, MaxIdChunks)
    /\ input = <<>>
    /\ result = <<>>
    /\ file = NoFile
    /\ ledger = {}
    /\ calls = <<>>
    /\ batch_i = 0
    /\ run = 0
    /\ docs = <<>>
    /\ history = <<>>
    /\ pc = "ids"

CalcChunkIds ==
    /\ pc = "ids"
    /\ input' = chunks
    /\ chunks' = calc_chunk_ids(chunks, platform)
    /\ result' = chunks'
    /\ pc' = "ids_done"
    /\ UNCHANGED <<platform, file, ledger, calls, batch_i, run, docs, history>>

NextIds == CalcChunkIds

SpecIds == InitIds /\ [][NextIds]_vars

----------------------------------------------------------------------------
(* Claims about calc_chunk_ids *)

\* the position of the first chunk at which calc_chunk_ids faults, Len + 1 if none
FirstFault(cs) ==
    IF \E k \in 1..Len(cs) : Faults(cs[k])
    THEN CHOOSE k \in 1..Len(cs) : Faults(cs[k]) /\ \A j \in 1..(k - 1) : ~Faults(cs[j])
    ELSE Len(cs) + 1

\* C2: every chunk visited gets chunk_id = page_id + ":" + index, where index is 0
\* for the first chunk and on a change of page_id, and the previous chunk's
\* index + 1 when page_id is the previous chunk's page_id.
C2_ChunkIdFormat ==
    pc = "ids_done" =>
        /\ Len(chunks) = Len(input)
        /\ \A k \in 1..(FirstFault(input) - 1) :
            \E index \in 0..Len(input) :
                /\ chunks[k].chunk_id
                     = PageId(input[k], platform) \o <<":">> \o ToStr(index)
                /\ IF k = 1 \/ PageId(input[k], platform) # PageId(input[k - 1], platform)
                   THEN index = 0
                   ELSE /\ index > 0
                        /\ chunks[k - 1].chunk_id
                             = PageId(input[k - 1], platform) \o <<":">> \o ToStr(index - 1)

\* the sequence of spec.md section 8.3, and its ids ending in 0, 1, 0, 1
C2_Witness ==
    /\ pc = "ids_done"
    /\ input = <<NewChunk(SrcA, 1, Word), NewChunk(SrcA, 1, Word),
                 NewChunk(SrcA, 2, Word), NewChunk(SrcA, 2, Word)>>
    /\ chunks[1].chunk_id = <<"a.pdf", ":", "1", ":", "0">>
    /\ chunks[2].chunk_id = <<"a.pdf", ":", "1", ":", "1">>
    /\ chunks[3].chunk_id = <<"a.pdf", ":", "2", ":", "0">>
    /\ chunks[4].chunk_id = <<"a.pdf", ":", "2", ":", "1">>

\* the page of the document a chunk was cut from
DocPage(chunk, os) == <<RelComps(chunk.source, BaseDataPath, os), chunk.page>>

\* source-then-page-then-position order: the chunks of one page of one document
\* are next to each other
InSourceOrder(cs, os) ==
    \A i, j, k \in 1..Len(cs) :
        (i < j /\ j < k /\ DocPage(cs[i], os) = DocPage(cs[k], os))
            => DocPage(cs[j], os) = DocPage(cs[i], os)

\* C3: on a sequence in source-then-page-then-position order, no two distinct
\* chunks carry the same chunk_id.
C3_UniqueIds ==
    (pc = "ids_done" /\ InSourceOrder(input, platform)) =>
        \A i, j \in 1..Len(chunks) :
            (i # j /\ chunks[i].chunk_id # NoId /\ chunks[j].chunk_id # NoId)
                => chunks[i].chunk_id # chunks[j].chunk_id

C3_Witness ==
    /\ pc = "ids_done"
    /\ InSourceOrder(input, platform)
    /\ Len(input) = MaxIdChunks
    /\ FirstFault(input) > Len(input)
    /\ PageId(input[1], platform) = PageId(input[2], platform)
    /\ PageId(input[2], platform) # PageId(input[3], platform)
    /\ \A k \in 1..Len(chunks) : chunks[k].chunk_id # NoId

----------------------------------------------------------------------------
(* filter_chunks *)

\* the tokens str.strip() removes
Whitespace == {" "}

\* a token on which the tokenizer raises
BadToken == "<bad>"

\* content.strip(): leading and trailing whitespace removed
Strip(text) ==
    LET inner == {k \in 1..Len(text) : text[k] \notin Whitespace}
    IN  IF inner = {} THEN <<>>
        ELSE SubSeq(text, CHOOSE a \in inner : \A k \in inner : a <= k,
                          CHOOSE b \in inner : \A k \in inner : b >= k)

\* num_tokens(text) raises
TokenizerRaises(text) == \E k \in 1..Len(text) : text[k] = BadToken

\* num_tokens(text): the number of tokens of the text
num_tokens(text) == Len(text)

\* mutant: the untrimmed page_content is counted
StripTokenLen_NoStrip(chunk) == num_tokens(chunk.content)

\* token_len = num_tokens(chunk.page_content.strip())
StripTokenLen(chunk) == num_tokens(Strip(chunk.content))

\* mutant: inclusive bounds
InWindow_Inclusive(token_len, lower_limit, upper_limit) ==
    lower_limit <= token_len /\ token_len <= upper_limit

\* lower_limit < token_len < upper_limit
InWindow(token_len, lower_limit, upper_limit) ==
    lower_limit < token_len /\ token_len < upper_limit

\* mutant: the except branch returns what was filtered before the fault
FilterFallback_Partial(cs, filtered) == filtered

\* the except branch: return chunks
FilterFallback(cs, filtered) == cs

\* the for loop appends the chunks inside the window to filtered; a tokenizer
\* fault at any chunk leaves the loop for the except branch
filter_chunks(cs, lower_limit, upper_limit) ==
    LET RECURSIVE loop(_, _)
        loop(k, filtered) ==
            IF k > Len(cs) THEN filtered
            ELSE IF TokenizerRaises(Strip(cs[k].content))
                 THEN FilterFallback(cs, filtered)
            ELSE IF InWindow(StripTokenLen(cs[k]), lower_limit, upper_limit)
                 THEN loop(k + 1, Append(filtered, cs[k]))
            ELSE loop(k + 1, filtered)
    IN  loop(1, <<>>)

----------------------------------------------------------------------------
(* filter_chunks called on any chunk list with any limits *)

MaxFilterChunks == 3

MaxLimit == 4

Limits == 0..MaxLimit

Contents ==
    {<<"w">>, <<"w", "w">>, <<" ", "w", "w", " ">>, <<"w", "w", "w">>,
     <<"w", "w", "w", "w">>, <<"w", BadToken>>}

\* chunks of one page, with the chunk_ids calc_chunk_ids gives them
FilterInputs ==
    {calc_chunk_ids(cs, "posix") :
        cs \in SeqsUpTo({NewChunk(SrcA, 1, c) : c \in Contents}, MaxFilterChunks)}

InitFilter ==
    /\ platform = "posix"
    /\ chunks \in FilterInputs
    /\ input = <<>>
    /\ result = <<>>
    /\ file = NoFile
    /\ ledger = {}
    /\ calls = <<>>
    /\ batch_i = 0
    /\ run = 0
    /\ docs = <<>>
    /\ history = <<>>
    /\ pc = "filter"

FilterChunks ==
    /\ pc = "filter"
    /\ \E lower_limit \in Limits, upper_limit \in Limits :
        /\ input' = [chunks |-> chunks, lower_limit |-> lower_limit,
                     upper_limit |-> upper_limit]
        /\ result' = filter_chunks(chunks, lower_limit, upper_limit)
    /\ pc' = "filter_done"
    /\ UNCHANGED <<platform, chunks, file, ledger, calls, batch_i, run, docs, history>>

NextFilter == FilterChunks

SpecFilter == InitFilter /\ [][NextFilter]_vars

----------------------------------------------------------------------------
(* Claims about filter_chunks *)

\* the tokenizer raises on some chunk of cs
SomeRaises(cs) == \E k \in 1..Len(cs) : TokenizerRaises(Strip(cs[k].content))

\* the positions of sub in cs, when sub is cs with elements left out: increasing
IsOrderedSelection(sub, cs, keep(_)) ==
    \E pos \in [1..Len(sub) -> 1..Len(cs)] :
        /\ \A a, b \in 1..Len(sub) : a < b => pos[a] < pos[b]
        /\ \A a \in 1..Len(sub) : sub[a] = cs[pos[a]]
        /\ \A k \in 1..Len(cs) : keep(k) <=> \E a \in 1..Len(sub) : pos[a] = k

C9_FailOpen ==
    (pc = "filter_done" /\ SomeRaises(input.chunks)) => result = input.chunks

\* the fault comes after a chunk that was kept and one that was dropped
C9_Witness ==
    /\ pc = "filter_done"
    /\ Len(input.chunks) = 3
    /\ InWindow(StripTokenLen(input.chunks[1]), input.lower_limit, input.upper_limit)
    /\ ~TokenizerRaises(input.chunks[2].content)
    /\ ~InWindow(StripTokenLen(input.chunks[2]), input.lower_limit, input.upper_limit)
    /\ TokenizerRaises(input.chunks[3].content)
    /\ result = input.chunks

----------------------------------------------------------------------------
(* process_in_batches *)

Min(a, b) == IF a < b THEN a ELSE b

\* mutant: the slice starts at the head of the list
BatchSlice_FromStart(documents, from, ingest_batch_size) ==
    SubSeq(documents, 1, Min(from + ingest_batch_size, Len(documents)))

\* mutant: the slice is one element short
BatchSlice_Short(documents, from, ingest_batch_size) ==
    SubSeq(documents, from + 1, Min(from + ingest_batch_size - 1, Len(documents)))

\* batch = documents[i:i + ingest_batch_size]
BatchSlice(documents, from, ingest_batch_size) ==
    SubSeq(documents, from + 1, Min(from + ingest_batch_size, Len(documents)))

\* mutant: the except branch leaves the loop
AfterFailedBatch_Break(from, ingest_batch_size, total) == total

\* the except branch logs and falls through to the next value of the range
AfterFailedBatch(from, ingest_batch_size, total) == from + ingest_batch_size

\* one ingest_fn(batch) invocation and the line logged after it
BatchCall(batch, raised, from, ingest_batch_size) ==
    [batch |-> batch, raised |-> raised,
     log |-> IF raised THEN "Failed to ingest batch" ELSE "Ingested batch",
     index |-> from \div ingest_batch_size]

MaxBatchChunks == 5

MaxBatchSize == 3

\* chunks of two pages, with the chunk_ids calc_chunk_ids gives them
BatchInputs ==
    {calc_chunk_ids(cs, "posix") :
        cs \in {[k \in 1..n |-> NewChunk(SrcA, IF k <= m THEN 1 ELSE 2, Word)] :
                    n \in 0..MaxBatchChunks, m \in 0..1}}

InitBatch ==
    /\ platform = "posix"
    /\ chunks \in BatchInputs
    /\ input = <<>>
    /\ result = <<>>
    /\ file = NoFile
    /\ ledger = {}
    /\ calls = <<>>
    /\ batch_i = 0
    /\ run = 0
    /\ docs = <<>>
    /\ history = <<>>
    /\ pc = "batch"

\* range(0, total, ingest_batch_size) with a positive step
EnterBatches ==
    /\ pc = "batch"
    /\ \E ingest_batch_size \in 1..MaxBatchSize :
        input' = [documents |-> chunks, ingest_batch_size |-> ingest_batch_size]
    /\ batch_i' = 0
    /\ pc' = "batch_loop"
    /\ UNCHANGED <<platform, chunks, result, file, ledger, calls, run, docs, history>>

\* range(0, total, 0) raises ValueError outside any try
EnterBatchesZeroStep ==
    /\ pc = "batch"
    /\ input' = [documents |-> chunks, ingest_batch_size |-> 0]
    /\ pc' = "batch_raised"
    /\ UNCHANGED <<platform, chunks, result, file, ledger, calls, batch_i, run, docs, history>>

\* one iteration whose ingest_fn(batch) returns
IngestReturns ==
    /\ pc = "batch_loop"
    /\ batch_i < Len(input.documents)
    /\ calls' = Append(calls, BatchCall(
            BatchSlice(input.documents, batch_i, input.ingest_batch_size),
            FALSE, batch_i, input.ingest_batch_size))
    /\ batch_i' = batch_i + input.ingest_batch_size
    /\ UNCHANGED <<platform, chunks, input, result, file, ledger, run, pc, docs, history>>

\* one iteration whose ingest_fn(batch) raises
IngestRaises ==
    /\ pc = "batch_loop"
    /\ batch_i < Len(input.documents)
    /\ calls' = Append(calls, BatchCall(
            BatchSlice(input.documents, batch_i, input.ingest_batch_size),
            TRUE, batch_i, input.ingest_batch_size))
    /\ batch_i' = AfterFailedBatch(batch_i, input.ingest_batch_size, Len(input.documents))
    /\ UNCHANGED <<platform, chunks, input, result, file, ledger, run, pc, docs, history>>

\* the range is exhausted: the function returns None
LeaveBatches ==
    /\ pc = "batch_loop"
    /\ batch_i >= Len(input.documents)
    /\ pc' = "batch_done"
    /\ UNCHANGED <<platform, chunks, input, result, file, ledger, calls, batch_i, run, docs, history>>

NextBatch ==
    \/ EnterBatches
    \/ EnterBatchesZeroStep
    \/ IngestReturns
    \/ IngestRaises
    \/ LeaveBatches

SpecBatch == InitBatch /\ [][NextBatch]_vars

----------------------------------------------------------------------------
(* Claims about process_in_batches *)

\* ceil(n / d) for d > 0
CeilDiv(n, d) == (n + d - 1) \div d

RECURSIVE ConcatBatches(_)
\* the batches handed to ingest_fn, one after the other
ConcatBatches(cs) ==
    IF cs = <<>> THEN <<>> ELSE cs[1].batch \o ConcatBatches(Tail(cs))

\* C5: with a positive batch size every batch 0..ceil(n/batch_size)-1 is
\* attempted whatever failed before it, success is logged for exactly the
\* batches on which ingest_fn did not raise, and no exception escapes.
C5_AllBatchesAttempted ==
    /\ pc = "batch_raised" => input.ingest_batch_size <= 0
    /\ pc = "batch_loop" =>
        /\ batch_i = Len(calls) * input.ingest_batch_size
        /\ \A k \in 1..Len(calls) : calls[k].index = k - 1
    /\ pc = "batch_done" =>
        /\ Len(calls) = CeilDiv(Len(input.documents), input.ingest_batch_size)
        /\ \A k \in 1..Len(calls) :
            /\ calls[k].index = k - 1
            /\ calls[k].log = "Ingested batch" <=> ~calls[k].raised

\* spec.md section 8.7: 5 chunks, batch_size 2, only the second batch raises
C5_Witness ==
    /\ pc = "batch_done"
    /\ Len(input.documents) = 5
    /\ input.ingest_batch_size = 2
    /\ Len(calls) = 3
    /\ ~calls[1].raised /\ calls[2].raised /\ ~calls[3].raised
    /\ Cardinality({k \in 1..3 : calls[k].log = "Ingested batch"}) = 2

\* C6: the batches are contiguous, of exactly batch_size chunks except a
\* shorter, non-empty last one, passed once each in order; their concatenation
\* is the input.
C6_ContiguousBatches ==
    /\ pc \in {"batch_loop", "batch_done"} =>
        \A k \in 1..Len(calls) :
            /\ calls[k].batch # <<>>
            /\ (k < Len(calls) \/ (pc = "batch_loop" /\ batch_i < Len(input.documents)))
                => Len(calls[k].batch) = input.ingest_batch_size
            /\ Len(calls[k].batch) <= input.ingest_batch_size
            /\ \A a \in 1..Len(calls[k].batch) :
                calls[k].batch[a]
                    = input.documents[(k - 1) * input.ingest_batch_size + a]
    /\ pc = "batch_done" => ConcatBatches(calls) = input.documents

C6_Witness ==
    /\ pc = "batch_done"
    /\ Len(input.documents) = 5
    /\ input.ingest_batch_size = 2
    /\ Len(calls) = 3
    /\ Len(calls[1].batch) = 2 /\ Len(calls[2].batch) = 2 /\ Len(calls[3].batch) = 1
    /\ calls[2].raised

----------------------------------------------------------------------------
(* The sidecar file: JSON Lines as tokens *)

\* a token of the file's text; v holds the strings a token carries
Tok(t, v) == [t |-> t, v |-> v]

LBrace == Tok("{", <<>>)

RBrace == Tok("}", <<>>)

\* the line terminator
Newline == Tok("\n", <<>>)

\* "content": <page_content>
ContentTok(content) == Tok("content", <<content>>)

\* "metadata": {"source": ..., "page": ..., "chunk_id": ...}
MetaTok(source, page, chunk_id) == Tok("metadata", <<source, page, chunk_id>>)

\* text that is no JSON
Garbage == Tok("garbage", <<>>)

\* a JSON value that is no object, such as [] or null
JsonArray == Tok("[]", <<>>)

\* json.dumps(chunk_data) + "\n"
DumpLine(chunk) ==
    <<LBrace, ContentTok(chunk.content),
      MetaTok(chunk.source, FormatPage(chunk.page), chunk.chunk_id), RBrace, Newline>>

RECURSIVE DumpLines(_)
\* what the append loop writes for a chunk list
DumpLines(cs) == IF cs = <<>> THEN <<>> ELSE DumpLine(cs[1]) \o DumpLines(Tail(cs))

\* for line in f: the text between line terminators; a last line may lack one
FileLines(text) ==
    LET parts == Split(text, {Newline})
    IN  IF parts[Len(parts)] = <<>> THEN SubSeq(parts, 1, Len(parts) - 1) ELSE parts

\* json.loads(line.strip()): "object" for a dict (with the chunk_id of its
\* metadata, NoId if it has none), "value" for any other JSON value, "error"
\* for JSONDecodeError
JsonLoads(line) ==
    IF /\ Len(line) >= 2
       /\ line[1] = LBrace
       /\ line[Len(line)] = RBrace
       /\ Len(line) <= 4
       /\ \A k \in 2..(Len(line) - 1) : line[k].t \in {"content", "metadata"}
       /\ (Len(line) = 4 => line[2].t = "content" /\ line[3].t = "metadata")
    THEN [kind |-> "object",
          content |-> IF line[2].t = "content" THEN line[2].v[1] ELSE <<>>,
          chunk_id |-> IF line[Len(line) - 1].t = "metadata"
                       THEN line[Len(line) - 1].v[3] ELSE NoId]
    ELSE IF line = <<JsonArray>>
    THEN [kind |-> "value", content |-> <<>>, chunk_id |-> NoId]
    ELSE [kind |-> "error", content |-> <<>>, chunk_id |-> NoId]

\* mutant: the chunk_id is read from the top level of the record, where
\* there is none
ScanLine_NoAdd(existing_ids, parsed) == existing_ids

\* chunk_data.get raises AttributeError on a JSON value that is no dict; only
\* json.JSONDecodeError is caught inside the loop
ScanAborts(parsed) == parsed.kind = "value"

\* one iteration of the line loop: existing_ids afterwards
ScanLine(existing_ids, parsed) ==
    IF parsed.kind = "object" /\ parsed.chunk_id # NoId
    THEN existing_ids \cup {parsed.chunk_id} ELSE existing_ids

\* load_existing_chunks_metadata: set() for a missing file and from the outer
\* except branch, else the chunk_ids collected by the line loop
load_existing_chunks_metadata(f) ==
    IF f = NoFile THEN {}
    ELSE LET lines == FileLines(f)
             RECURSIVE scan(_, _)
             scan(k, existing_ids) ==
                 IF k > Len(lines) THEN existing_ids
                 ELSE IF ScanAborts(JsonLoads(lines[k])) THEN {}
                 ELSE scan(k + 1, ScanLine(existing_ids, JsonLoads(lines[k])))
         IN  scan(1, {})

\* mutant: the file is opened with mode "w"
OpenAppend_Truncate(f) == <<>>

\* open(chunks_dir, "a"): the writes go after the content there is
OpenAppend(f) == IF f = NoFile THEN <<>> ELSE f

\* the second half of save_processed_chunks_metadata: the file is scanned
\* again and the chunk_id set is returned
save_reload(f) ==
    IF f = NoFile THEN {}
    ELSE LET lines == FileLines(f)
             RECURSIVE scan(_, _)
             scan(k, existing_ids) ==
                 IF k > Len(lines) THEN existing_ids
                 ELSE IF JsonLoads(lines[k]).kind = "value" THEN {}
                 ELSE IF /\ JsonLoads(lines[k]).kind = "object"
                         /\ JsonLoads(lines[k]).chunk_id # NoId
                      THEN scan(k + 1, existing_ids \cup {JsonLoads(lines[k]).chunk_id})
                 ELSE scan(k + 1, existing_ids)
         IN  scan(1, {})

----------------------------------------------------------------------------
(* load_existing_chunks_metadata and save_processed_chunks_metadata called    *)
(* on any sidecar file                                                        *)

\* runs of the caller, each with one save
MaxRuns == 2

MaxFileLines == 2

MaxFileTokens == 25

\* chunks of a.pdf and b.pdf with their chunk_ids, and a list whose second
\* chunk faulted in calc_chunk_ids and has no chunk_id
ChunksA == calc_chunk_ids([k \in 1..3 |-> NewChunk(SrcA, 1, Word)], "posix")
ChunksB == calc_chunk_ids([k \in 1..2 |-> NewChunk(SrcB, 1, Word)], "posix")
ChunksNoId ==
    calc_chunk_ids(<<NewChunk(SrcA, 2, Word), NewChunk(PyNone, 2, Word)>>, "posix")

SaveInputs == {<<>>, SubSeq(ChunksA, 1, 1), ChunksA, ChunksB, ChunksNoId}

\* a line without its terminator
Unterminated(line) == SubSeq(line, 1, Len(line) - 1)

\* lines a sidecar file may hold: records, an object without metadata, text
\* that is no JSON, a JSON value that is no object, a record cut short
FileLineKinds ==
    {DumpLine(ChunksA[1]), DumpLine(ChunksB[1]), <<LBrace, RBrace, Newline>>,
     <<Garbage, Newline>>, <<JsonArray, Newline>>,
     <<LBrace, ContentTok(Word), Newline>>}

RECURSIVE ConcatAll(_)
ConcatAll(ss) == IF ss = <<>> THEN <<>> ELSE ss[1] \o ConcatAll(Tail(ss))

\* files of at most MaxFileLines lines; the last line may lack its terminator
InitialFiles ==
    LET whole == {ConcatAll(ls) : ls \in SeqsUpTo(FileLineKinds, MaxFileLines)}
    IN  {NoFile} \cup whole \cup {Unterminated(f) : f \in whole \ {<<>>}}

FilePcs == {"file", "load_done", "save_done"}

InitFile ==
    /\ platform = "posix"
    /\ chunks = <<>>
    /\ input = <<>>
    /\ result = <<>>
    /\ file \in InitialFiles
    /\ ledger = {}
    /\ calls = <<>>
    /\ batch_i = 0
    /\ run = 0
    /\ docs = <<>>
    /\ history = <<>>
    /\ pc = "file"

LoadExisting ==
    /\ pc \in FilePcs
    /\ result' = load_existing_chunks_metadata(file)
    /\ input' = <<>>
    /\ pc' = "load_done"
    /\ UNCHANGED <<platform, chunks, file, ledger, calls, batch_i, run, docs, history>>

\* every chunk is written and the file is closed
SaveCompletes ==
    /\ pc \in FilePcs
    /\ run < MaxRuns
    /\ run' = run + 1
    /\ \E cs \in SaveInputs :
        /\ Len(OpenAppend(file)) + Len(DumpLines(cs)) <= MaxFileTokens
        /\ input' = [chunks |-> cs, before |-> file, completed |-> TRUE]
        /\ file' = OpenAppend(file) \o DumpLines(cs)
    /\ result' = save_reload(file')
    /\ pc' = "save_done"
    /\ UNCHANGED <<platform, chunks, ledger, calls, batch_i, docs, history>>

\* mkdir or open raises (nothing is written), or a write raises after part of
\* the text reached the file; the except branch logs and the reload follows
SaveFails ==
    /\ pc \in FilePcs
    /\ run < MaxRuns
    /\ run' = run + 1
    /\ \E cs \in SaveInputs :
        /\ Len(OpenAppend(file)) + Len(DumpLines(cs)) <= MaxFileTokens
        /\ input' = [chunks |-> cs, before |-> file, completed |-> FALSE]
        /\ \/ file' = file
           \/ \E n \in 0..(Len(DumpLines(cs)) - 1) :
                file' = OpenAppend(file) \o SubSeq(DumpLines(cs), 1, n)
    /\ result' = save_reload(file')
    /\ pc' = "save_done"
    /\ UNCHANGED <<platform, chunks, ledger, calls, batch_i, docs, history>>

NextFile ==
    \/ LoadExisting
    \/ SaveCompletes
    \/ SaveFails

SpecFile == InitFile /\ [][NextFile]_vars

----------------------------------------------------------------------------
(* Claims about the sidecar file *)

IsPrefix(a, b) == Len(a) <= Len(b) /\ SubSeq(b, 1, Len(a)) = a

\* the text of a file, empty when the file is missing
TextOf(f) == IF f = NoFile THEN <<>> ELSE f

\* every line of the text has its terminator
LinesTerminated(text) == text = <<>> \/ text[Len(text)] = Newline

\* the lines that are JSON objects
WellFormedLines(text) ==
    SelectSeq(FileLines(text), LAMBDA line : JsonLoads(line).kind = "object")

\* C7: the content before a save is a prefix of the content after it; a save
\* that completes with k chunks appends exactly k terminated lines, line j the
\* JSON object of chunk j, so a file of terminated lines gains exactly k
\* well-formed lines.
C7_AppendOnly ==
    pc = "save_done" =>
        LET before == TextOf(input.before)
            after == TextOf(file)
            added == SubSeq(after, Len(before) + 1, Len(after))
            k == Len(input.chunks)
        IN  /\ IsPrefix(before, after)
            /\ input.before # NoFile => file # NoFile
            /\ input.completed =>
                /\ file # NoFile
                /\ Len(FileLines(added)) = k
                /\ LinesTerminated(added)
                /\ \A j \in 1..k :
                    JsonLoads(FileLines(added)[j])
                        = [kind |-> "object", content |-> input.chunks[j].content,
                           chunk_id |-> input.chunks[j].chunk_id]
                /\ LinesTerminated(before) =>
                    /\ Len(FileLines(after)) = Len(FileLines(before)) + k
                    /\ Len(WellFormedLines(after)) = Len(WellFormedLines(before)) + k

\* spec.md section 8.8: a run appends 3 records to a new file, the next run 2
C7_Witness ==
    /\ pc = "save_done"
    /\ run = 2
    /\ input.completed
    /\ input.before = DumpLines(ChunksA)
    /\ input.chunks = ChunksB
    /\ Len(WellFormedLines(file)) = 5
    /\ SubSeq(file, 1, Len(DumpLines(ChunksA))) = DumpLines(ChunksA)

\* the chunk_ids of the lines that are records with a chunk_id
ValidRecordIds(f) ==
    IF f = NoFile THEN {}
    ELSE {JsonLoads(FileLines(f)[k]).chunk_id :
            k \in {n \in 1..Len(FileLines(f)) :
                      /\ JsonLoads(FileLines(f)[n]).kind = "object"
                      /\ JsonLoads(FileLines(f)[n]).chunk_id # NoId}}

\* C10: the ledger load returns exactly the chunk_ids of the valid records of
\* the file; any other line is skipped and the scan goes on; a missing file
\* gives the empty set.
C10_LedgerLoad ==
    pc = "load_done" => result = ValidRecordIds(file)

----------------------------------------------------------------------------
(* The populate stage: runs of the pipeline over the same documents.         *)
(* Each run assigns the chunk_ids, loads the ledger, excludes the known      *)
(* chunk_ids, applies the token window, ingests in batches and appends the   *)
(* chunks of the batches that were ingested to the sidecar file.             *)

MaxRunChunks == 3

\* lower_limit and upper_limit of the configuration
RunLowerLimit == 0
RunUpperLimit == 3

\* contents inside the token window, outside it, and one the tokenizer
\* raises on
RunContents == {<<"w">>, <<"w", "w", "w", "w">>, <<"w", BadToken>>}

\* the pages of the documents, in the order the loader enumerates them
RunPages == <<[source |-> SrcA, page |-> 1], [source |-> SrcB, page |-> 1]>>

\* the chunk lists the splitter can return: the chunks of a page together,
\* pages and documents in the loader's order
RunInputs ==
    {[k \in 1..Len(ps) |-> NewChunk(RunPages[ps[k]].source, RunPages[ps[k]].page, cs[k])] :
        <<ps, cs>> \in
            {pc2 \in SeqsUpTo(1..Len(RunPages), MaxRunChunks)
                        \X SeqsUpTo(RunContents, MaxRunChunks) :
                /\ Len(pc2[1]) = Len(pc2[2])
                /\ \A a, b \in 1..Len(pc2[1]) : a < b => pc2[1][a] <= pc2[1][b]}}

\* new_chunks: the chunks whose chunk_id is not in the ledger
ExcludeKnown(cs, existing_ids) ==
    SelectSeq(cs, LAMBDA c : c.chunk_id \notin existing_ids)

\* the chunks of the batches on which ingest_fn returned
IngestedChunks(cs) ==
    ConcatBatches(SelectSeq(cs, LAMBDA c : ~c.raised))

\* the record of a run that has just begun on sidecar file f
NewRun(f) ==
    [file_before |-> f, after_dedup |-> <<>>, after_filter |-> <<>>, calls |-> <<>>,
     saved |-> <<>>, completed |-> FALSE, file_after |-> NoFile]

InitRun ==
    /\ platform = "posix"
    /\ docs \in RunInputs
    /\ chunks = <<>>
    /\ input = <<>>
    /\ result = <<>>
    /\ file = NoFile
    /\ ledger = {}
    /\ calls = <<>>
    /\ batch_i = 0
    /\ run = 0
    /\ history = <<>>
    /\ pc = "idle"

\* a run begins: load_docs and split_docs give the chunk list
StartRun ==
    /\ pc = "idle"
    /\ run < MaxRuns
    /\ run' = run + 1
    /\ chunks' = docs
    /\ calls' = <<>>
    /\ history' = Append(history, NewRun(file))
    /\ pc' = "run_ids"
    /\ UNCHANGED <<platform, input, result, file, ledger, batch_i, docs>>

RunCalcChunkIds ==
    /\ pc = "run_ids"
    /\ chunks' = calc_chunk_ids(chunks, platform)
    /\ pc' = "run_load"
    /\ UNCHANGED <<platform, input, result, file, ledger, calls, batch_i, run, docs, history>>

RunLoadLedger ==
    /\ pc = "run_load"
    /\ ledger' = load_existing_chunks_metadata(file)
    /\ pc' = "run_dedup"
    /\ UNCHANGED <<platform, chunks, input, result, file, calls, batch_i, run, docs, history>>

RunExcludeKnown ==
    /\ pc = "run_dedup"
    /\ chunks' = ExcludeKnown(chunks, ledger)
    /\ history' = [history EXCEPT ![run].after_dedup = chunks']
    /\ pc' = "run_filter"
    /\ UNCHANGED <<platform, input, result, file, ledger, calls, batch_i, run, docs>>

RunFilterChunks ==
    /\ pc = "run_filter"
    /\ chunks' = filter_chunks(chunks, RunLowerLimit, RunUpperLimit)
    /\ history' = [history EXCEPT ![run].after_filter = chunks']
    /\ pc' = "batch"
    /\ UNCHANGED <<platform, input, result, file, ledger, calls, batch_i, run, docs>>

\* save_processed_chunks_metadata on the chunks that were ingested; its
\* return value is dropped
RunSave ==
    /\ pc = "batch_done"
    /\ run > 0
    /\ file' = OpenAppend(file) \o DumpLines(IngestedChunks(calls))
    /\ history' = [history EXCEPT ![run].calls = calls,
                                  ![run].saved = IngestedChunks(calls),
                                  ![run].completed = TRUE,
                                  ![run].file_after = file']
    /\ pc' = "idle"
    /\ UNCHANGED <<platform, chunks, input, result, ledger, calls, batch_i, run, docs>>

\* the same call when mkdir, open or a write raises: the except branch logs,
\* and the file keeps what had reached it
RunSaveFails ==
    /\ pc = "batch_done"
    /\ run > 0
    /\ \/ file' = file
       \/ \E n \in 0..(Len(DumpLines(IngestedChunks(calls))) - 1) :
            file' = OpenAppend(file) \o SubSeq(DumpLines(IngestedChunks(calls)), 1, n)
    /\ history' = [history EXCEPT ![run].calls = calls,
                                  ![run].saved = IngestedChunks(calls),
                                  ![run].completed = FALSE,
                                  ![run].file_after = file']
    /\ pc' = "idle"
    /\ UNCHANGED <<platform, chunks, input, result, ledger, calls, batch_i, run, docs>>

NextRun ==
    \/ StartRun
    \/ RunCalcChunkIds
    \/ RunLoadLedger
    \/ RunExcludeKnown
    \/ RunFilterChunks
    \/ EnterBatches
    \/ IngestReturns
    \/ IngestRaises
    \/ LeaveBatches
    \/ RunSave
    \/ RunSaveFails

SpecRun == InitRun /\ [][NextRun]_vars

----------------------------------------------------------------------------
(* Claims about runs *)

\* the chunk_ids of a chunk list
IdsOf(cs) == {cs[k].chunk_id : k \in 1..Len(cs)}

\* every batch of the run was ingested and its save completed
CleanRun(h) == h.completed /\ \A k \in 1..Len(h.calls) : ~h.calls[k].raised

\* the chunks of the batches of a run on which ingest_fn raised
FailedChunks(h) == ConcatBatches(SelectSeq(h.calls, LAMBDA c : c.raised))

\* run r and the run after it are over
BothOver(r) == r + 1 <= Len(history) /\ (r + 1 < Len(history) \/ pc = "idle")

C4_FailedBatchRetried ==
    \A r \in 1..MaxRuns :
        /\ (r < Len(history) \/ (r = Len(history) /\ pc = "idle")) =>
            IdsOf(FailedChunks(history[r]))
                \cap load_existing_chunks_metadata(history[r].file_after) = {}
        /\ BothOver(r) =>
            IdsOf(FailedChunks(history[r]))
                \subseteq IdsOf(ConcatBatches(history[r + 1].calls))

\* C4, amended: the chunk_ids of a failed batch are not in the ledger after
\* the run; the next run's dedup step lets the chunks through, and those its
\* token filter keeps are handed to ingest_fn again.
C4_FailedBatchNotRecorded ==
    \A r \in 1..MaxRuns :
        /\ (r < Len(history) \/ (r = Len(history) /\ pc = "idle")) =>
            IdsOf(FailedChunks(history[r]))
                \cap load_existing_chunks_metadata(history[r].file_after) = {}
        /\ BothOver(r) =>
            /\ IdsOf(FailedChunks(history[r])) \subseteq IdsOf(history[r + 1].after_dedup)
            /\ IdsOf(FailedChunks(history[r])) \cap IdsOf(history[r + 1].after_filter)
                 \subseteq IdsOf(ConcatBatches(history[r + 1].calls))

\* run 1 ingests one batch and fails on another; run 2 is handed the chunks
\* of the failed batch, and only those
C4_Witness ==
    /\ Len(history) = 2
    /\ pc = "idle"
    /\ history[1].completed
    /\ history[1].saved # <<>>
    /\ FailedChunks(history[1]) # <<>>
    /\ ConcatBatches(history[2].calls) = FailedChunks(history[1])

----------------------------------------------------------------------------
(* Claims about a save that fails part-way *)

\* C11: after a save that failed part-way, the file is the content before the
\* call followed by the complete lines of the first N chunks, for some N.
C11_PartialWriteWholeLines ==
    (pc = "save_done" /\ ~input.completed) =>
        \E n \in 0..Len(input.chunks) :
            TextOf(file) = TextOf(input.before) \o DumpLines(SubSeq(input.chunks, 1, n))

----------------------------------------------------------------------------
(* A run that is terminated, and the run after it *)

\* every line of the text is a terminated record with a chunk_id
AllRecords(text) ==
    /\ LinesTerminated(text)
    /\ \A k \in 1..Len(FileLines(text)) :
        /\ JsonLoads(FileLines(text)[k]).kind = "object"
        /\ JsonLoads(FileLines(text)[k]).chunk_id # NoId

\* the record of a terminated save: the file before and after, the chunks, and
\* the number of tokens of their lines that reached the file
TerminatedSave(before, cs, n, after) ==
    [before |-> before, chunks |-> cs, written |-> n, after |-> after]

InitResume ==
    /\ platform = "posix"
    /\ chunks = <<>>
    /\ input = <<>>
    /\ result = <<>>
    /\ file \in {f \in InitialFiles : f = NoFile \/ AllRecords(f)}
    /\ ledger = {}
    /\ calls = <<>>
    /\ batch_i = 0
    /\ run = 0
    /\ docs = <<>>
    /\ history = <<>>
    /\ pc = "file"

\* the process is terminated before the file is opened, or inside the append
\* loop when part of the text has reached the file; nothing of
\* save_processed_chunks_metadata runs afterwards
SaveTerminated ==
    /\ pc \in FilePcs
    /\ run < MaxRuns
    /\ run' = run + 1
    /\ \E cs \in SaveInputs :
        /\ Len(OpenAppend(file)) + Len(DumpLines(cs)) <= MaxFileTokens
        /\ \/ /\ file' = file
              /\ history' = Append(history, TerminatedSave(file, cs, 0, file'))
           \/ \E n \in 0..Len(DumpLines(cs)) :
                /\ file' = OpenAppend(file) \o SubSeq(DumpLines(cs), 1, n)
                /\ history' = Append(history, TerminatedSave(file, cs, n, file'))
    /\ input' = <<>>
    /\ result' = <<>>
    /\ pc' = "file"
    /\ UNCHANGED <<platform, chunks, ledger, calls, batch_i, docs>>

NextResume ==
    \/ SaveTerminated
    \/ LoadExisting
    \/ SaveCompletes

SpecResume == InitResume /\ [][NextResume]_vars

\* the chunks of a terminated save whose record reached the file whole
WrittenBefore(h) ==
    SubSeq(h.chunks, 1, (h.written + 1) \div Len(DumpLine(NewChunk(SrcA, 1, Word))))

\* the chunk_ids of the chunks of a list that have one
KnownIds(cs) == {cs[k].chunk_id : k \in {j \in 1..Len(cs) : cs[j].chunk_id # NoId}}

\* C12: a terminated run leaves a file of complete records; the next ledger
\* load returns the chunk_ids of the records written before the termination;
\* every record the next run appends is returned by the ledger load after it.
C12_ResumeAfterTermination ==
    \A r \in 1..Len(history) :
        AllRecords(TextOf(history[r].before)) =>
            /\ AllRecords(TextOf(history[r].after))
            /\ load_existing_chunks_metadata(history[r].after)
                 = ValidRecordIds(history[r].before) \cup KnownIds(WrittenBefore(history[r]))
            /\ (/\ r = Len(history)
                /\ pc = "save_done"
                /\ input.completed
                /\ input.before = history[r].after)
                => KnownIds(input.chunks) \subseteq load_existing_chunks_metadata(file)

----------------------------------------------------------------------------
(* Claims about a fault inside calc_chunk_ids *)

\* C13: when one chunk of the sequence has a malformed source, every other
\* chunk, those after it included, is assigned a chunk_id.
C13_OtherChunksGetIds ==
    (pc = "ids_done" /\ Cardinality({k \in 1..Len(input) : Faults(input[k])}) = 1) =>
        \A k \in 1..Len(input) :
            ~Faults(input[k]) => chunks[k].chunk_id # NoId

----------------------------------------------------------------------------
(* Claims about exceptions leaving the operations *)

\* C14: no exception leaves process_in_batches, whatever its arguments
C14_NoExceptionEscapes == pc # "batch_raised"

----------------------------------------------------------------------------
(* calc_chunk_ids called again on the chunks it returned *)

\* the second call, on the annotated chunks of the first or on the chunks as
\* they were before it; result is what it returns
CalcChunkIdsAgain ==
    /\ pc = "ids_done"
    /\ \E cs \in {chunks, input} : result' = calc_chunk_ids(cs, platform)
    /\ pc' = "ids_again"
    /\ UNCHANGED <<platform, chunks, input, file, ledger, calls, batch_i, run, docs, history>>

NextIdsTwice ==
    \/ CalcChunkIds
    \/ CalcChunkIdsAgain

SpecIdsTwice == InitIds /\ [][NextIdsTwice]_vars

\* C15: a second call, on the same chunks or on the annotated ones, gives every
\* chunk the chunk_id the first call gave it.
C15_Deterministic ==
    pc = "ids_again" =>
        /\ Len(result) = Len(chunks)
        /\ \A k \in 1..Len(chunks) : result[k].chunk_id = chunks[k].chunk_id

\* four chunks of two pages get their chunk_ids twice
C15_Witness ==
    /\ pc = "ids_again"
    /\ Len(chunks) = MaxIdChunks
    /\ FirstFault(input) > Len(input)
    /\ PageId(input[1], platform) = PageId(input[2], platform)
    /\ PageId(input[2], platform) # PageId(input[3], platform)
    /\ result = chunks
    /\ result # input

----------------------------------------------------------------------------
(* Two runs appending to the same sidecar file at the same time.             *)
(* Each run passes its lines to the operating system in blocks of whole      *)
(* lines. With O_APPEND on posix a block is appended in one step; the C      *)
(* runtime on nt moves to the end of the file and writes in two steps.       *)

\* no position: the writer has not moved to the end of the file
NoPos == 0 - 1

\* a run inside the append loop: the text it has not yet passed on, and the
\* position it moved to
Writer(text) == [pending |-> text, pos |-> NoPos]

\* the first k lines of a text of whole lines, with their terminators
FirstLines(text, k) ==
    ConcatAll([n \in 1..k |-> FileLines(text)[n] \o <<Newline>>])

InitConcurrent ==
    /\ platform \in {"posix", "nt"}
    /\ docs \in {<<>>, SubSeq(ChunksNoId, 1, 1)}
    /\ file \in {IF docs = <<>> THEN NoFile ELSE DumpLines(docs), DumpLines(docs)}
    /\ input \in {<<SubSeq(ChunksA, 1, 1), ChunksB>>, <<ChunksA, SubSeq(ChunksB, 1, 1)>>,
                  <<ChunksA, ChunksB>>}
    /\ calls = <<Writer(DumpLines(input[1])), Writer(DumpLines(input[2]))>>
    /\ chunks = <<>>
    /\ result = <<>>
    /\ ledger = {}
    /\ batch_i = 0
    /\ run = 0
    /\ history = <<>>
    /\ pc = "conc"

\* posix: a block of whole lines of run w is appended in one step
AppendBlock(w) ==
    /\ pc = "conc"
    /\ platform = "posix"
    /\ calls[w].pending # <<>>
    /\ \E k \in 1..Len(FileLines(calls[w].pending)) :
        LET block == FirstLines(calls[w].pending, k)
        IN  /\ file' = OpenAppend(file) \o block
            /\ calls' = [calls EXCEPT ![w].pending =
                            SubSeq(calls[w].pending, Len(block) + 1, Len(calls[w].pending))]
    /\ UNCHANGED <<platform, chunks, input, result, ledger, batch_i, run, docs, history, pc>>

\* nt: run w moves to the end of the file
SeekEnd(w) ==
    /\ pc = "conc"
    /\ platform = "nt"
    /\ calls[w].pending # <<>>
    /\ calls[w].pos = NoPos
    /\ file' = OpenAppend(file)
    /\ calls' = [calls EXCEPT ![w].pos = Len(OpenAppend(file))]
    /\ UNCHANGED <<platform, chunks, input, result, ledger, batch_i, run, docs, history, pc>>

\* nt: the text of run w fits its buffer and is written in one piece, when
\* the file is closed, at the position the run moved to; the text the other run
\* wrote there meanwhile is overwritten, and as the texts of the tokens differ
\* in length, what is left of it begins at any token
WriteAtPos(w) ==
    /\ pc = "conc"
    /\ platform = "nt"
    /\ calls[w].pos # NoPos
    /\ LET block == calls[w].pending
           over == SubSeq(file, calls[w].pos + 1, Len(file))
       IN  \E j \in (IF over = <<>> THEN {1} ELSE 2..(Len(over) + 1)) :
               file' = SubSeq(file, 1, calls[w].pos) \o block \o SubSeq(over, j, Len(over))
    /\ calls' = [calls EXCEPT ![w].pending = <<>>, ![w].pos = NoPos]
    /\ UNCHANGED <<platform, chunks, input, result, ledger, batch_i, run, docs, history, pc>>

\* both runs have closed the file
FinishConcurrent ==
    /\ pc = "conc"
    /\ \A w \in 1..2 : calls[w].pending = <<>>
    /\ pc' = "conc_done"
    /\ UNCHANGED <<platform, chunks, input, result, file, ledger, calls, batch_i, run, docs, history>>

NextConcurrent ==
    \/ \E w \in 1..2 : AppendBlock(w)
    \/ \E w \in 1..2 : SeekEnd(w)
    \/ \E w \in 1..2 : WriteAtPos(w)
    \/ FinishConcurrent

SpecConcurrent == InitConcurrent /\ [][NextConcurrent]_vars

\* C16: when both runs are done, every line of the file is one complete
\* record, written by one of the runs or there before them.
C16_WholeLines ==
    pc = "conc_done" =>
        /\ LinesTerminated(TextOf(file))
        /\ \A k \in 1..Len(FileLines(TextOf(file))) :
            \E c \in {(docs \o input[1] \o input[2])[n] :
                        n \in 1..Len(docs \o input[1] \o input[2])} :
                FileLines(TextOf(file))[k] \o <<Newline>> = DumpLine(c)

----------------------------------------------------------------------------
(* Claims about the spelling of the source *)

\* the chunks with data\a.pdf respelled data/a.pdf
Slashed(cs) ==
    [k \in 1..Len(cs) |->
        IF cs[k].source = SrcAWin THEN [cs[k] EXCEPT !.source = SrcA] ELSE cs[k]]

\* C17: a chunk gets the chunk_id it would get with its source data\a.pdf
\* respelled data/a.pdf.
C17_SpellingIndependent ==
    pc = "ids_done" =>
        \A k \in 1..Len(input) :
            chunks[k].chunk_id = calc_chunk_ids(Slashed(input), platform)[k].chunk_id

----------------------------------------------------------------------------
(* load_docs *)

\* base_data_path does not exist
NoDir == <<[dir |-> <<>>, name |-> "<no directory>", ext |-> "", pages |-> 0]>>

\* a file below the base directory: the directories between the base directory
\* and the file, its name, the extension of the name, and the number of its
\* pages
DirEntry(dir, name, ext, pages) == [dir |-> dir, name |-> name, ext |-> ext, pages |-> pages]

DirEntries ==
    {DirEntry(<<>>, "a.pdf", ".pdf", 2), DirEntry(<<>>, "b.pdf", ".pdf", 1),
     DirEntry(<<>>, "notes.txt", ".txt", 1), DirEntry(<<"sub">>, "c.pdf", ".pdf", 1)}

MaxFiles == 3

\* the listings of a directory: files with different names, in the order the
\* directory enumerates them
Listings ==
    {ls \in SeqsUpTo(DirEntries, MaxFiles) :
        \A a, b \in 1..Len(ls) : a # b => ls[a] # ls[b]}

\* base_data_path.glob("*.pdf"): the files directly under the base directory
\* whose name ends in .pdf
Glob(listing) == SelectSeq(listing, LAMBDA e : e.dir = <<>> /\ e.ext = ".pdf")

\* str(pdf_file)
FilePath(e) == BaseDataPath \o <<"/", e.name>>

\* loader.load(): one document per page, in page order
LoaderLoad(e) == [p \in 1..e.pages |-> NewChunk(FilePath(e), p, Word)]

\* mutant: the loop is left at the first PDF that fails
AfterFailedLoad_Break(k, total) == total + 1

\* continue: the loop goes on with the next PDF
AfterFailedLoad(k, total) == k + 1

InitLoad ==
    /\ platform = "posix"
    /\ docs \in Listings \cup {NoDir}
    /\ chunks = <<>>
    /\ input = <<>>
    /\ result = <<>>
    /\ file = NoFile
    /\ ledger = {}
    /\ calls = <<>>
    /\ batch_i = 0
    /\ run = 0
    /\ history = <<>>
    /\ pc = "load"

\* the base directory does not exist: [] is returned
LoadDocsNoDirectory ==
    /\ pc = "load"
    /\ docs = NoDir
    /\ result' = <<>>
    /\ pc' = "load_done"
    /\ UNCHANGED <<platform, chunks, input, file, ledger, calls, batch_i, run, docs, history>>

\* pdf_files = list(base_data_path.glob("*.pdf")), all_docs = []
LoadDocsGlob ==
    /\ pc = "load"
    /\ docs # NoDir
    /\ input' = [pdf_files |-> Glob(docs)]
    /\ chunks' = <<>>
    /\ batch_i' = 1
    /\ pc' = "load_loop"
    /\ UNCHANGED <<platform, result, file, ledger, calls, run, docs, history>>

\* one PDF loads: all_docs.extend(docs)
LoaderLoads ==
    /\ pc = "load_loop"
    /\ batch_i <= Len(input.pdf_files)
    /\ chunks' = chunks \o LoaderLoad(input.pdf_files[batch_i])
    /\ calls' = Append(calls, [pdf_file |-> input.pdf_files[batch_i], raised |-> FALSE])
    /\ batch_i' = batch_i + 1
    /\ UNCHANGED <<platform, input, result, file, ledger, run, docs, history, pc>>

\* the loader raises on one PDF: a warning is logged
LoaderRaises ==
    /\ pc = "load_loop"
    /\ batch_i <= Len(input.pdf_files)
    /\ calls' = Append(calls, [pdf_file |-> input.pdf_files[batch_i], raised |-> TRUE])
    /\ batch_i' = AfterFailedLoad(batch_i, Len(input.pdf_files))
    /\ UNCHANGED <<platform, chunks, input, result, file, ledger, run, docs, history, pc>>

\* the loop is over: all_docs is returned
LoadDocsReturns ==
    /\ pc = "load_loop"
    /\ batch_i > Len(input.pdf_files)
    /\ result' = chunks
    /\ pc' = "load_done"
    /\ UNCHANGED <<platform, chunks, input, file, ledger, calls, batch_i, run, docs, history>>

NextLoad ==
    \/ LoadDocsNoDirectory
    \/ LoadDocsGlob
    \/ LoaderLoads
    \/ LoaderRaises
    \/ LoadDocsReturns

SpecLoad == InitLoad /\ [][NextLoad]_vars

\* the PDFs directly under the base directory, in enumeration order
DirectPdfs(listing) ==
    SelectSeq(listing, LAMBDA e : e.dir = <<>> /\ e.ext = ".pdf")

\* the pages of a PDF as documents
PageDocs(e) ==
    [p \in 1..e.pages |->
        [source |-> <<"data", "/", e.name>>, page |-> p,
         chunk_id |-> NoId, content |-> Word]]

\* C18: every PDF directly under the base directory is tried, in enumeration
\* order; the result is the pages of those that loaded, in that order; a
\* missing directory gives the empty list.
C18_LoadDocs ==
    pc = "load_done" =>
        IF docs = NoDir THEN result = <<>>
        ELSE /\ Len(calls) = Len(DirectPdfs(docs))
             /\ \A k \in 1..Len(calls) : calls[k].pdf_file = DirectPdfs(docs)[k]
             /\ result = ConcatAll([k \in 1..Len(calls) |->
                            IF calls[k].raised THEN <<>> ELSE PageDocs(calls[k].pdf_file)])

\* b.pdf fails first, a.pdf is loaded after it, the file in the subdirectory is
\* not tried
C18_Witness ==
    /\ pc = "load_done"
    /\ docs = <<DirEntry(<<>>, "b.pdf", ".pdf", 1), DirEntry(<<"sub">>, "c.pdf", ".pdf", 1),
                DirEntry(<<>>, "a.pdf", ".pdf", 2)>>
    /\ calls[1].raised
    /\ ~calls[2].raised
    /\ result = <<NewChunk(SrcA, 1, Word), NewChunk(SrcA, 2, Word)>>

----------------------------------------------------------------------------
(* Claims about what calc_chunk_ids leaves alone *)

\* C19: calc_chunk_ids returns the chunks in the same number and order, with
\* content, source and page as they were; the chunks before the first chunk
\* without a source carry a chunk_id, and from that chunk on the chunk_id is
\* what it was
C19_OnlyChunkIdChanges ==
    pc = "ids_done" =>
        /\ Len(chunks) = Len(input)
        /\ result = chunks
        /\ \A k \in 1..Len(input) :
            /\ DOMAIN chunks[k] = DOMAIN input[k]
            /\ chunks[k].content = input[k].content
            /\ chunks[k].source = input[k].source
            /\ chunks[k].page = input[k].page
            /\ IF \A j \in 1..k : input[j].source # PyNone
               THEN chunks[k].chunk_id # NoId
               ELSE chunks[k].chunk_id = input[k].chunk_id

\* two chunks get their chunk_ids, the third has no source, and the fourth is
\* left as it was
C19_Witness ==
    /\ pc = "ids_done"
    /\ Len(input) = 4
    /\ input[3].source = PyNone
    /\ input[4].source # PyNone
    /\ chunks[1].chunk_id # NoId
    /\ chunks[2].chunk_id # NoId
    /\ chunks[3] = input[3]
    /\ chunks[4] = input[4]

----------------------------------------------------------------------------
(* Claims about the ledger a save returns *)

\* the set a save returns is the set a load of the file as the save left it
\* returns
ReloadIsLoad ==
    pc = "save_done" => result = load_existing_chunks_metadata(file)

\* every chunk_id a load of the file before the save returns is in the set
\* the save returns
LedgerGrows ==
    pc = "save_done" => load_existing_chunks_metadata(input.before) \subseteq result

\* C20: the set returned by save_processed_chunks_metadata is the set
\* load_existing_chunks_metadata returns on the file the save left, whether
\* the append completed or failed, and it contains every chunk_id that was in
\* the ledger before the save
C20_SaveLedger == ReloadIsLoad /\ LedgerGrows

====
